---- MODULE Spec2Model ----
(***************************************************************************)
(* cargo-cli: `cargo cli <path>` runs `cargo new --bin`, then overwrites   *)
(* src/main.rs, creates src/error.rs, src/run.rs, LICENSE-MIT,             *)
(* LICENSE-APACHE and README.md from templates, and merges dependencies,   *)
(* license and readme into Cargo.toml.                                     *)
(*                                                                         *)
(* The model follows run() of src/run.rs statement by statement: one       *)
(* action per call that touches the file system, the child process, the    *)
(* registry or the terminal.  The file system, the child process, the      *)
(* registry and the terminal are the environment: their outcomes are       *)
(* chosen with \E at the step that consults them.                          *)
(***************************************************************************)
EXTENDS Integers, Sequences, FiniteSets, TLC

VARIABLES
    args,       \* the parsed command line (clap matches of the `cli` subcommand)
    termOk,     \* whether term::stdout() yields a terminal
    pc,         \* position of run() in its statement sequence
    template,   \* the Templates value built by Templates::new
    fs,         \* the template-made files of the project directory: path -> file
    manifest,   \* Cargo.toml on disk
    config,     \* the in-memory Config (Option)
    writer,     \* bytes held by cargo_toml_writer (Option of a document)
    registry,   \* the crates.io answers received by this run: package -> answer
    events,     \* the debug()/info() calls made by this run, in order
    trace,      \* the external operations performed by this run, in order
    ret,        \* the value run() returned
    exit,       \* the code main() handed to process::exit
    runNo,      \* how many times the command was started on this directory
    fs0,        \* fs when this run started
    manifest0,  \* manifest when this run started
    initDoc,    \* Cargo.toml as `cargo new` left it in this run (Option)
    scaffolded, \* an earlier run on this directory ended with exit code 0
    ecode,      \* the ExitStatus of `cargo new` in this run (Option of Option of code)
    malformed,  \* the template texts of the catalog that mustache cannot compile
    other       \* the state of a second run of the command in the same directory,
                \* while it is not the one taking steps (Option)

vars == <<args, termOk, pc, template, fs, manifest, config, writer, registry,
          events, trace, ret, exit, runNo, fs0, manifest0, initDoc, scaffolded,
          ecode, malformed, other>>

\* ------------------------------------------------------------------ bounds

\* How many times the command is run on the same directory.
MaxRuns == 2
\* How many fields unknown to Config/Package the initial Cargo.toml may hold.
MaxUnknown == 1
\* How many dependencies the initial Cargo.toml may already list.
MaxExistingDeps == 2
\* How many files besides src/main.rs and Cargo.toml the directory may already hold.
MaxPreexisting == 1

\* --------------------------------------------------------------- constants

None == << >>
Some(x) == <<x>>

\* enum Level
LevelTrace == 0
LevelDebug == 1
LevelInfo == 2
LevelWarn == 3

MainRs == "src/main.rs"
ErrorRs == "src/error.rs"
RunRs == "src/run.rs"
LicenseMit == "LICENSE-MIT"
LicenseApache == "LICENSE-APACHE"
ReadmeMd == "README.md"
CargoToml == "Cargo.toml"

\* The paths run() creates with create_file, in the order it creates them.
CreatePaths == <<ErrorRs, RunRs, LicenseMit, LicenseApache, ReadmeMd>>
CreateSet == {CreatePaths[i] : i \in 1..Len(CreatePaths)}
Paths == {MainRs} \cup CreateSet

CARGO_TOML_README == "README.md"
CARGO_TOML_BOTH == "MIT/Apache-2.0"
CARGO_TOML_MIT == "MIT"
CARGO_TOML_APACHE == "Apache-2.0"

\* ------------------------------------------------------------- Result<T>

Ok(v) == [ok |-> TRUE, val |-> v, err |-> ""]
Err(kind) == [ok |-> FALSE, val |-> None, err |-> kind]

\* -------------------------------------------------------------- templates

\* The template texts that hold the `{{ name }}` placeholder.
Placeholders ==
    {"CLAP_MAIN_RS", "CLAP_RUN_RS", "CLAP_ERROR_RS", "DOCOPT_MAIN_RS",
     "DOCOPT_RUN_RS", "DOCOPT_ERROR_RS", "PREFIX_BOTH", "PREFIX_MIT",
     "PREFIX_APACHE", "README"}

\* A Templates::new that sets the prefix for both licenses only.
TemplatesNewBothPrefix(name, clap, mit, apache, readme, query) ==
    [clap |-> clap,
     kvs |-> name,
     main |-> IF clap THEN "CLAP_MAIN_RS" ELSE "DOCOPT_MAIN_RS",
     run |-> IF clap THEN "CLAP_RUN_RS" ELSE "DOCOPT_RUN_RS",
     error |-> IF clap THEN "CLAP_ERROR_RS" ELSE "DOCOPT_ERROR_RS",
     prefix |-> IF mit /\ apache THEN "PREFIX_BOTH" ELSE "",
     mit |-> IF mit THEN Some("LICENSE_MIT") ELSE None,
     apache |-> IF apache THEN Some("LICENSE_APACHE") ELSE None,
     readme |-> IF readme THEN Some("README") ELSE None,
     query |-> query]

\* Templates::new
TemplatesNew(name, clap, mit, apache, readme, query) ==
    [clap |-> clap,
     kvs |-> name,
     main |-> IF clap THEN "CLAP_MAIN_RS" ELSE "DOCOPT_MAIN_RS",
     run |-> IF clap THEN "CLAP_RUN_RS" ELSE "DOCOPT_RUN_RS",
     error |-> IF clap THEN "CLAP_ERROR_RS" ELSE "DOCOPT_ERROR_RS",
     prefix |-> IF mit /\ apache THEN "PREFIX_BOTH"
                ELSE IF mit THEN "PREFIX_MIT"
                ELSE IF apache THEN "PREFIX_APACHE"
                ELSE "",
     mit |-> IF mit THEN Some("LICENSE_MIT") ELSE None,
     apache |-> IF apache THEN Some("LICENSE_APACHE") ELSE None,
     readme |-> IF readme THEN Some("README") ELSE None,
     query |-> query]

\* Templates::render: compile_str fails on a text that is not mustache; else
\* the text with every `{{ name }}` replaced by kvs.name.
\* A piece of file content is the text it was made from and the name put in.
Render(t, text) ==
    IF text \in malformed THEN Err("Mustache")
    ELSE Ok([text |-> text, name |-> IF text \in Placeholders THEN t.kvs ELSE ""])

\* A text written as it is (as_bytes of a &str).
Raw(text) == [text |-> text, name |-> ""]

\* Templates::has_license
HasLicense(t) == t.mit # None \/ t.apache # None

\* Templates::readme
TemplateReadme(t) ==
    IF t.readme # None THEN Some(Render(t, t.readme[1])) ELSE None

\* ------------------------------------------------------ version resolution

\* What one GET of /api/v1/crates/<name> can come to: the transfer fails
\* (network error, timeout), or a response arrives with a status and a body
\* that holds crate.max_version (Some) or does not (None).
NoTransfer == [transfer |-> FALSE, status |-> 0, body |-> None]
Answers ==
    {NoTransfer,
     [transfer |-> TRUE, status |-> 200, body |-> Some("9.9.9")],
     [transfer |-> TRUE, status |-> 404, body |-> None]}

\* A response with a status other than 200 whose body holds a max_version
\* (a proxy or a mirror answering from a stale copy).
NonOkWithVersion == [transfer |-> TRUE, status |-> 500, body |-> Some("8.8.8")]

\* The answers explored for a package: the non-200 response with a version
\* for error-chain, the first lookup of both argument parsers.
AnswersOf(pkg) ==
    IF pkg = "error-chain" THEN Answers \cup {NonOkWithVersion} ELSE Answers

\* fetch_cratesio: the body, whatever the status; an error when perform() fails.
FetchCratesio(answer) ==
    IF answer.transfer THEN Ok(answer.body) ELSE Err("Curl")

\* get_latest
GetLatest(answer) ==
    LET crate_json == FetchCratesio(answer) IN
    IF ~crate_json.ok THEN crate_json
    ELSE IF crate_json.val = None THEN Err("Json")
    ELSE Ok(crate_json.val[1])

\* Fallback literals with the versions of docopt and clap one release behind.
FallbackVersionStale(pkg) ==
    CASE pkg = "error-chain" -> "0.10.0"
      [] pkg = "clap" -> "2.24.0"
      [] pkg = "docopt" -> "0.8.0"
      [] pkg = "serde_derive" -> "1.0.9"
      [] pkg = "serde" -> "1.0.9"

\* The literals add_deps falls back to.
FallbackVersion(pkg) ==
    CASE pkg = "error-chain" -> "0.10.0"
      [] pkg = "clap" -> "2.25.0"
      [] pkg = "docopt" -> "0.8.1"
      [] pkg = "serde_derive" -> "1.0.9"
      [] pkg = "serde" -> "1.0.9"

\* The packages add_deps resolves, in the order it resolves them.
DepNames(t) ==
    IF t.clap THEN <<"error-chain", "clap">>
    ELSE <<"error-chain", "docopt", "serde_derive", "serde">>

\* The packages add_deps inserts, in the order it inserts them.
InsertOrder(t) ==
    IF t.clap THEN <<"error-chain", "clap">>
    ELSE <<"serde_derive", "serde", "error-chain", "docopt">>

SeqRange(s) == {s[i] : i \in 1..Len(s)}

\* An unwrap_or_else that falls back to the version of another package.
UnwrapOrOtherFallback(pkg, answer) ==
    LET r == GetLatest(answer) IN
    IF r.ok THEN r.val ELSE FallbackVersion("serde")

\* get_latest(pkg).unwrap_or_else(|_| fallback)
UnwrapOrFallback(pkg, answer) ==
    LET r == GetLatest(answer) IN
    IF r.ok THEN r.val ELSE FallbackVersion(pkg)

\* A resolution that takes the registry to be down once any lookup has
\* failed, and gives every package its fallback then.
ResolveAllOrNone(t, pkg, answers) ==
    IF t.query /\ \A p \in DOMAIN answers : GetLatest(answers[p]).ok
    THEN GetLatest(answers[pkg]).val
    ELSE FallbackVersion(pkg)

\* The version add_deps binds for pkg: queried or not.
Resolve(t, pkg, answers) ==
    IF t.query THEN UnwrapOrFallback(pkg, answers[pkg]) ELSE FallbackVersion(pkg)

\* An insert that keeps the value of a key already there (entry().or_insert()).
InsertIfAbsent(map, k, v) ==
    [x \in (DOMAIN map) \cup {k} |-> IF x \in DOMAIN map THEN map[x] ELSE v]

\* BTreeMap::insert
Insert(map, k, v) ==
    [x \in (DOMAIN map) \cup {k} |-> IF x = k THEN v ELSE map[x]]

RECURSIVE InsertAll(_, _, _, _, _)
InsertAll(t, deps, order, i, answers) ==
    IF i > Len(order) THEN deps
    ELSE InsertAll(t, Insert(deps, order[i], Resolve(t, order[i], answers)),
                   order, i + 1, answers)

\* Templates::add_deps
AddDeps(t, deps, answers) == InsertAll(t, deps, InsertOrder(t), 1, answers)

\* The get_latest calls add_deps makes.
LookupCalls(t) ==
    IF t.query
    THEN [i \in 1..Len(DepNames(t)) |-> [op |-> "get_latest", arg |-> DepNames(t)[i]]]
    ELSE << >>

\* ------------------------------------------------------------------- TOML

\* A TOML value: its type and its text.
Str(s) == [type |-> "string", val |-> s]
Arr(s) == [type |-> "array", val |-> s]
Tbl(s) == [type |-> "table", val |-> s]

EmptyTable == [k \in {} |-> Str("")]

\* The content of a Cargo.toml: whether it is TOML at all, its [package] and
\* [dependencies] tables (Option of key -> value) and every other top-level key.
Doc(syntaxOk, package, dependencies, others) ==
    [syntaxOk |-> syntaxOk, package |-> package,
     dependencies |-> dependencies, others |-> others]

\* A file of length 0 (what open with truncate(true) leaves).
EmptyDoc == Doc(TRUE, None, None, EmptyTable)

\* struct Package, struct Config
Package(name, version, authors, license, readme) ==
    [name |-> name, version |-> version, authors |-> authors,
     license |-> license, readme |-> readme]
Config(package, dependencies) ==
    [package |-> package, dependencies |-> dependencies]

\* An Option<String> field: absent is None, a string is Some, anything else
\* does not deserialize.
OptStringOk(tbl, k) == k \in DOMAIN tbl => tbl[k].type = "string"
OptString(tbl, k) == IF k \in DOMAIN tbl THEN Some(tbl[k].val) ELSE None

\* toml::from_str::<Config>: the derived Deserialize reads the fields of Config
\* and Package and skips every key that is not one of them.
FromStr(doc) ==
    IF ~doc.syntaxOk \/ doc.package = None THEN Err("TomlDe")
    ELSE LET p == doc.package[1] IN
         IF ~({"name", "version", "authors"} \subseteq DOMAIN p) THEN Err("TomlDe")
         ELSE IF \/ p["name"].type # "string"
                 \/ p["version"].type # "string"
                 \/ p["authors"].type # "array"
                 \/ ~OptStringOk(p, "license")
                 \/ ~OptStringOk(p, "readme")
              THEN Err("TomlDe")
         ELSE IF /\ doc.dependencies # None
                 /\ \E k \in DOMAIN doc.dependencies[1] :
                        doc.dependencies[1][k].type # "string"
              THEN Err("TomlDe")
         ELSE Ok(Config(
                Package(p["name"].val, p["version"].val, p["authors"].val,
                        OptString(p, "license"), OptString(p, "readme")),
                IF doc.dependencies = None THEN None
                ELSE Some([k \in DOMAIN doc.dependencies[1] |->
                              doc.dependencies[1][k].val])))

\* The [package] table the derived Serialize writes: a None field is left out.
PackageTable(pkg) ==
    LET keys == {"name", "version", "authors"}
                \cup (IF pkg.license # None THEN {"license"} ELSE {})
                \cup (IF pkg.readme # None THEN {"readme"} ELSE {})
    IN [k \in keys |->
          CASE k = "name" -> Str(pkg.name)
            [] k = "version" -> Str(pkg.version)
            [] k = "authors" -> Arr(pkg.authors)
            [] k = "license" -> Str(pkg.license[1])
            [] k = "readme" -> Str(pkg.readme[1])]

\* toml::to_string(&config), when it succeeds.
TomlToString(cfg) ==
    Doc(TRUE,
        Some(PackageTable(cfg.package)),
        IF cfg.dependencies = None THEN None
        ELSE Some([k \in DOMAIN cfg.dependencies[1] |-> Str(cfg.dependencies[1][k])]),
        EmptyTable)

\* ------------------------------------------- what `cargo new` may leave

UnknownPackageKeys == <<"description", "edition", "build">>
UnknownTopKeys == <<"features", "workspace", "profile">>
ExistingDepNames == <<"beta", "clap", "serde">>

FirstOf(names, n) == {names[i] : i \in 1..n}

BasePackage == [k \in {"name", "version", "authors"} |->
                  CASE k = "name" -> Str("demo")
                    [] k = "version" -> Str("0.1.0")
                    [] k = "authors" -> Arr("me")]

\* [dependencies] tables with versions given as strings.
DepTables ==
    {[k \in S |-> Str("2.0.0")] : S \in SUBSET FirstOf(ExistingDepNames, MaxExistingDeps)}

\* [package] with n keys Package does not declare, and a license and a readme.
Extend(tbl, keys, val) ==
    [k \in (DOMAIN tbl) \cup keys |-> IF k \in DOMAIN tbl THEN tbl[k] ELSE val]

GoodDocs ==
    {Doc(TRUE, Some(BasePackage), Some(d), EmptyTable) : d \in DepTables}
    \cup {Doc(TRUE, Some(BasePackage), None, EmptyTable)}
    \cup {Doc(TRUE,
              Some(Extend(Extend(BasePackage, {"license"}, Str("GPL-3.0")),
                          {"readme"}, Str("DOC.md"))),
              Some(EmptyTable), EmptyTable)}
    \cup {Doc(TRUE,
              Some(Extend(BasePackage, FirstOf(UnknownPackageKeys, n), Str("x"))),
              Some(Extend(EmptyTable, FirstOf(ExistingDepNames, 1), Str("2.0.0"))),
              Extend(EmptyTable, FirstOf(UnknownTopKeys, n), Tbl("y")))
          : n \in 1..MaxUnknown}

\* Not TOML; no [package]; a dependency given as a table ({ version = ".." }).
BadDocs ==
    {Doc(FALSE, None, None, EmptyTable),
     EmptyDoc,
     Doc(TRUE, Some(BasePackage),
         Some(Extend(EmptyTable, FirstOf(ExistingDepNames, 1), Tbl("2.0.0"))),
         EmptyTable)}

InitialDocs == GoodDocs \cup BadDocs

\* ------------------------------------------------------------ file system

File(data) == [exists |-> TRUE, data |-> data]
Absent == [exists |-> FALSE, data |-> << >>]

\* src/main.rs as `cargo new --bin` writes it; a file somebody else put there.
Stub == File(<<Raw("CARGO_NEW_MAIN_RS")>>)
Foreign == File(<<Raw("FOREIGN")>>)

NoManifest == [exists |-> FALSE, doc |-> EmptyDoc]
ManifestFile(doc) == [exists |-> TRUE, doc |-> doc]

\* Nothing of the project is on disk yet.
Fresh(files, man) == ~man.exists /\ \A p \in Paths : ~files[p].exists

\* ---------------------------------------------------------------- logging

\* The level run() derives from --quiet and -v.
LevelOf(a) ==
    IF a.quiet THEN LevelWarn
    ELSE IF a.verbose = 0 THEN LevelInfo
    ELSE IF a.verbose = 1 THEN LevelDebug
    ELSE LevelTrace

\* log_message: fails when term::stdout() is None.
LogMessage(term) == IF term THEN Ok(None) ELSE Err("TermCommand")

\* debug
Debug(level, term) == IF level <= LevelDebug THEN LogMessage(term) ELSE Ok(None)

\* info
Info(level, term) == IF level <= LevelInfo THEN LogMessage(term) ELSE Ok(None)

\* One debug()/info() call: its verb, its message, and whether it was printed.
Event(verb, msg, shown) == [verb |-> verb, msg |-> msg, shown |-> shown]

DebugEvent(verb, msg, level, term) == Event(verb, msg, level <= LevelDebug /\ term)
InfoEvent(verb, msg, level, term) == Event(verb, msg, level <= LevelInfo /\ term)

\* ------------------------------------------------------------- write_file

\* What a write_file call comes to: the bytes that reached file_writer (they
\* reach the file when file_writer is dropped, on every way out), the events,
\* and the Result.
Written(data, ev, res) == [data |-> data, ev |-> ev, res |-> res]

\* The Main, Error and Run arms: prefix (with a license), body, debug(verb, path).
WriteSource(t, text, verb, path, level, term) ==
    LET p == Render(t, t.prefix)
        b == Render(t, text)
        head == IF HasLicense(t) THEN <<p.val>> ELSE << >>
    IN IF HasLicense(t) /\ ~p.ok THEN Written(<< >>, << >>, p)
       ELSE IF ~b.ok THEN Written(head, << >>, b)
       ELSE Written(head \o <<b.val>>,
                    <<DebugEvent(verb, path, level, term)>>,
                    Debug(level, term))

\* The Mit and Apache arms: the body as it is, debug("Created", path).
WriteLicense(body, path, level, term) ==
    IF body # None
    THEN Written(<<Raw(body[1])>>,
                 <<DebugEvent("Created", path, level, term)>>,
                 Debug(level, term))
    ELSE Written(<< >>, << >>, Ok(None))

\* The Readme arm: `if let Some(Ok(readme)) = template.readme()`.
WriteReadme(t, level, term) ==
    LET r == TemplateReadme(t) IN
    IF r # None /\ r[1].ok
    THEN Written(<<r[1].val>>,
                 <<DebugEvent("Created", ReadmeMd, level, term)>>,
                 Debug(level, term))
    ELSE Written(<< >>, << >>, Ok(None))

\* write_file
WriteFile(t, template_type, level, term) ==
    CASE template_type = "Main" ->
             WriteSource(t, t.main, "Updated", MainRs, level, term)
      [] template_type = "Error" ->
             WriteSource(t, t.error, "Updated", ErrorRs, level, term)
      [] template_type = "Run" ->
             WriteSource(t, t.run, "Updated", RunRs, level, term)
      [] template_type = "Mit" -> WriteLicense(t.mit, LicenseMit, level, term)
      [] template_type = "Apache" -> WriteLicense(t.apache, LicenseApache, level, term)
      [] template_type = "Readme" -> WriteReadme(t, level, term)

\* A create_file that opens every role's file, with a body or without.
ShouldCreateAlways(t, template_type) == TRUE

\* The `create_file` flag of create_file.
ShouldCreate(t, template_type) ==
    CASE template_type = "Mit" -> t.mit # None
      [] template_type = "Apache" -> t.apache # None
      [] template_type = "Readme" -> TemplateReadme(t) # None
      [] OTHER -> TRUE

\* ------------------------------------------------------------ run(), main()

\* What run() returns: Ok(code) or Err(kind).
RetOk(code) == [ok |-> TRUE, code |-> code, err |-> ""]
RetErr(kind) == [ok |-> FALSE, code |-> 1, err |-> kind]

\* A main that exits 1 whenever `cargo new` did not succeed.
ProcessExitFlat(r) == IF r.ok /\ r.code = 0 THEN 0 ELSE 1

\* main: Ok(i) => process::exit(i); Err(e) => message on stderr, process::exit(1).
ProcessExit(r) == IF r.ok THEN r.code ELSE 1

Op(op, arg) == [op |-> op, arg |-> arg]

\* run() returns r and main() exits.
Return(r) ==
    /\ ret' = Some(r)
    /\ exit' = Some(ProcessExit(r))
    /\ pc' = "exited"

\* run() goes on to its next statement.
Goto(next) ==
    /\ pc' = next
    /\ UNCHANGED <<ret, exit>>

\* A selection that takes the default, both, for a license it does not know.
LicenseFlagsDefault(license) ==
    CASE license = "mit" -> Ok([mit |-> TRUE, apache |-> FALSE])
      [] license = "apache" -> Ok([mit |-> FALSE, apache |-> TRUE])
      [] license = "none" -> Ok([mit |-> FALSE, apache |-> FALSE])
      [] OTHER -> Ok([mit |-> TRUE, apache |-> TRUE])

\* The (mit, apache) pair run() derives from --license.
LicenseFlags(license) ==
    CASE license = "both" -> Ok([mit |-> TRUE, apache |-> TRUE])
      [] license = "mit" -> Ok([mit |-> TRUE, apache |-> FALSE])
      [] license = "apache" -> Ok([mit |-> FALSE, apache |-> TRUE])
      [] license = "none" -> Ok([mit |-> FALSE, apache |-> FALSE])
      [] OTHER -> Err("InvalidLicense")

Mit(a) == LicenseFlags(a.license).val.mit
Apache(a) == LicenseFlags(a.license).val.apache
Readme(a) == ~a.no_readme
Query(a) == ~a.no_latest

\* The command lines clap lets through.
ArgsSet ==
    {a \in [arg_parser : {"clap", "docopt"},
            license : {"both", "mit", "apache", "none"},
            no_readme : BOOLEAN,
            no_latest : BOOLEAN,
            quiet : BOOLEAN,
            verbose : {0, 1, 2},
            name : {"demo"}] :
        a.quiet => a.verbose = 0}

\* The state when run() starts on the command line a, built with a catalog
\* whose texts m do not compile, beside a second run in state o (Option).
InitProcesses(a, m, o) ==
    /\ args = a
    /\ malformed = m
    /\ other = o
    /\ termOk \in BOOLEAN
    /\ pc = "start"
    /\ template = None
    /\ fs = [p \in Paths |-> Absent]
    /\ manifest = NoManifest
    /\ config = None
    /\ writer = None
    /\ registry = EmptyTable
    /\ events = << >>
    /\ trace = << >>
    /\ ret = None
    /\ exit = None
    /\ runNo = 1
    /\ fs0 = [p \in Paths |-> Absent]
    /\ manifest0 = NoManifest
    /\ initDoc = None
    /\ scaffolded = FALSE
    /\ ecode = None

\* One run of the command has the directory to itself.
InitState(a, m) == InitProcesses(a, m, None)

\* The catalog of tmpl.rs 283-666: every text compiles.
InitWith(a) == InitState(a, {})

Init == \E a \in ArgsSet : InitWith(a)

\* run.rs 363-383: the license and the argument parser select the templates.
SelectTemplates ==
    /\ pc = "start"
    /\ LET lic == LicenseFlags(args.license) IN
       IF ~lic.ok
       THEN /\ Return(RetErr(lic.err))
            /\ UNCHANGED template
       ELSE IF args.arg_parser \notin {"clap", "docopt"}
       THEN /\ Return(RetErr("InvalidArgParser"))
            /\ UNCHANGED template
       ELSE /\ template' = Some(TemplatesNew(args.name, args.arg_parser = "clap",
                                             lic.val.mit, lic.val.apache,
                                             Readme(args), Query(args)))
            /\ Goto("cargo_new")
    /\ UNCHANGED <<args, termOk, malformed, other, fs, manifest, config, writer, registry, events,
                   trace, runNo, fs0, manifest0, initDoc, scaffolded, ecode>>

\* What a successful `cargo new --bin` may leave in a directory that held
\* nothing of the project: src/main.rs (stub) and Cargo.toml (doc, an Option),
\* beside whatever else was put there (pre).
CargoNewOutputs ==
    {[stub |-> stub, doc |-> doc, pre |-> pre] :
        stub \in BOOLEAN,
        doc \in {None} \cup {Some(d) : d \in InitialDocs},
        pre \in {S \in SUBSET CreateSet : Cardinality(S) <= MaxPreexisting}}

CargoNewFiles(out) ==
    [p \in Paths |-> IF p = MainRs THEN (IF out.stub THEN Stub ELSE Absent)
                     ELSE IF p \in out.pre THEN Foreign ELSE Absent]

CargoNewManifest(out) ==
    IF out.doc = None THEN NoManifest ELSE ManifestFile(out.doc[1])

\* run.rs 385-398: spawn `cargo new`, wait, look at the exit status.
CargoNew ==
    /\ pc = "cargo_new"
    /\ trace' = Append(trace, Op("spawn", "cargo new"))
    /\ \/ \* spawn() or wait() fails
          /\ Return(RetErr("Io"))
          /\ UNCHANGED <<fs, manifest, initDoc, ecode>>
       \/ \* the child exits with a code other than 0
          /\ \E code \in {1, 101} :
                /\ ecode' = Some(Some(code))
                /\ Return(RetOk(code))
          /\ UNCHANGED <<fs, manifest, initDoc>>
       \/ \* the child is ended by a signal: ExitStatus::code() is None
          /\ ecode' = Some(None)
          /\ Return(RetErr("InvalidExitCode"))
          /\ UNCHANGED <<fs, manifest, initDoc>>
       \/ \* success: a directory that already holds the project is left as it is
          /\ IF Fresh(fs, manifest)
             THEN \E out \in CargoNewOutputs :
                     /\ fs' = CargoNewFiles(out)
                     /\ manifest' = CargoNewManifest(out)
             ELSE UNCHANGED <<fs, manifest>>
          /\ ecode' = Some(Some(0))
          /\ initDoc' = Some(manifest')
          /\ Goto("update_main")
    /\ UNCHANGED <<args, termOk, malformed, other, template, config, writer, registry, events,
                   runNo, fs0, manifest0, scaffolded>>

\* An update_file that goes on to the next statement when the open fails.
UpdateFileLenient(path, template_type, next) ==
    /\ trace' = Append(trace, Op("open_truncate", path))
    /\ IF ~fs[path].exists
       THEN /\ Goto(next)
            /\ UNCHANGED <<fs, events>>
       ELSE LET w == WriteFile(template[1], template_type, LevelOf(args), termOk) IN
            /\ fs' = [fs EXCEPT ![path] = File(w.data)]
            /\ events' = events \o w.ev
            /\ IF w.res.ok THEN Goto(next) ELSE Return(RetErr(w.res.err))

\* update_file: open(truncate, write), then write_file.
UpdateFile(path, template_type, next) ==
    /\ trace' = Append(trace, Op("open_truncate", path))
    /\ IF ~fs[path].exists
       THEN /\ Return(RetErr("Io"))
            /\ UNCHANGED <<fs, events>>
       ELSE LET w == WriteFile(template[1], template_type, LevelOf(args), termOk) IN
            /\ fs' = [fs EXCEPT ![path] = File(w.data)]
            /\ events' = events \o w.ev
            /\ IF w.res.ok THEN Goto(next) ELSE Return(RetErr(w.res.err))

\* A create_file that opens with create(true).truncate(true): an existing file
\* is written over.
CreateFileClobber(path, template_type, next) ==
    IF ~ShouldCreate(template[1], template_type)
    THEN /\ Goto(next)
         /\ UNCHANGED <<fs, events, trace>>
    ELSE LET w == WriteFile(template[1], template_type, LevelOf(args), termOk) IN
         /\ trace' = Append(trace, Op("create_new", path))
         /\ fs' = [fs EXCEPT ![path] = File(w.data)]
         /\ events' = events \o w.ev
         /\ IF w.res.ok THEN Goto(next) ELSE Return(RetErr(w.res.err))

\* A create_file that, finding the path taken, removes what the run made
\* before it fails.
CreateFileRollback(path, template_type, next) ==
    IF ~ShouldCreate(template[1], template_type)
    THEN /\ Goto(next)
         /\ UNCHANGED <<fs, events, trace>>
    ELSE /\ trace' = Append(trace, Op("create_new", path))
         /\ IF fs[path].exists
            THEN /\ Return(RetErr("Io"))
                 /\ fs' = [p \in Paths |->
                             IF p \in {ErrorRs, RunRs} THEN Absent ELSE fs[p]]
                 /\ UNCHANGED events
            ELSE LET w == WriteFile(template[1], template_type, LevelOf(args), termOk) IN
                 /\ fs' = [fs EXCEPT ![path] = File(w.data)]
                 /\ events' = events \o w.ev
                 /\ IF w.res.ok THEN Goto(next) ELSE Return(RetErr(w.res.err))

\* create_file: nothing for a role without a body; else open(create_new,
\* write), then write_file.
CreateFile(path, template_type, next) ==
    IF ~ShouldCreate(template[1], template_type)
    THEN /\ Goto(next)
         /\ UNCHANGED <<fs, events, trace>>
    ELSE /\ trace' = Append(trace, Op("create_new", path))
         /\ IF fs[path].exists
            THEN /\ Return(RetErr("Io"))
                 /\ UNCHANGED <<fs, events>>
            ELSE LET w == WriteFile(template[1], template_type, LevelOf(args), termOk) IN
                 /\ fs' = [fs EXCEPT ![path] = File(w.data)]
                 /\ events' = events \o w.ev
                 /\ IF w.res.ok THEN Goto(next) ELSE Return(RetErr(w.res.err))

FileFrame ==
    UNCHANGED <<args, termOk, malformed, other, template, manifest, config, writer, registry,
                runNo, fs0, manifest0, initDoc, scaffolded, ecode>>

\* run.rs 400-406
UpdateMain ==
    /\ pc = "update_main"
    /\ UpdateFile(MainRs, "Main", "create_error")
    /\ FileFrame

\* run.rs 407-413
CreateError ==
    /\ pc = "create_error"
    /\ CreateFile(ErrorRs, "Error", "create_run")
    /\ FileFrame

\* run.rs 414-420
CreateRun ==
    /\ pc = "create_run"
    /\ CreateFile(RunRs, "Run", "create_mit")
    /\ FileFrame

\* run.rs 421-427
CreateMit ==
    /\ pc = "create_mit"
    /\ CreateFile(LicenseMit, "Mit", "create_apache")
    /\ FileFrame

\* run.rs 428-434
CreateApache ==
    /\ pc = "create_apache"
    /\ CreateFile(LicenseApache, "Apache", "create_readme")
    /\ FileFrame

\* run.rs 435-441
CreateReadme ==
    /\ pc = "create_readme"
    /\ CreateFile(ReadmeMd, "Readme", "read_manifest")
    /\ FileFrame

\* run.rs 443-450: open Cargo.toml, read it, parse it.
ReadManifest ==
    /\ pc = "read_manifest"
    /\ trace' = Append(trace, Op("read", CargoToml))
    /\ IF ~manifest.exists
       THEN /\ Return(RetErr("Io"))
            /\ UNCHANGED config
       ELSE LET r == FromStr(manifest.doc) IN
            IF ~r.ok
            THEN /\ Return(RetErr(r.err))
                 /\ UNCHANGED config
            ELSE /\ config' = Some(r.val)
                 /\ Goto("merge")
    /\ UNCHANGED <<args, termOk, malformed, other, template, fs, manifest, writer, registry, events,
                   runNo, fs0, manifest0, initDoc, scaffolded, ecode>>

\* A merge that writes the license of the selection only: without a license
\* selected the field is cleared, and without a README so is readme.
MergePackageOwned(pkg, t, readme, mit, apache) ==
    Package(pkg.name, pkg.version, pkg.authors,
            IF mit /\ apache THEN Some(CARGO_TOML_BOTH)
            ELSE IF mit THEN Some(CARGO_TOML_MIT)
            ELSE IF apache THEN Some(CARGO_TOML_APACHE)
            ELSE None,
            IF readme THEN Some(CARGO_TOML_README) ELSE None)

\* A merge that builds the package anew from the name and the version and
\* leaves the authors out.
MergePackageRebuilt(pkg, t, readme, mit, apache) ==
    Package(pkg.name, pkg.version, "",
            IF mit /\ apache THEN Some(CARGO_TOML_BOTH)
            ELSE IF mit THEN Some(CARGO_TOML_MIT)
            ELSE IF apache THEN Some(CARGO_TOML_APACHE)
            ELSE pkg.license,
            IF readme THEN Some(CARGO_TOML_README) ELSE pkg.readme)

\* run.rs 460-470: the readme and the license of the package.
MergePackage(pkg, t, readme, mit, apache) ==
    Package(pkg.name, pkg.version, pkg.authors,
            IF mit /\ apache THEN Some(CARGO_TOML_BOTH)
            ELSE IF mit THEN Some(CARGO_TOML_MIT)
            ELSE IF apache THEN Some(CARGO_TOML_APACHE)
            ELSE pkg.license,
            IF readme THEN Some(CARGO_TOML_README) ELSE pkg.readme)

\* run.rs 451-473: the merged Config.
Merge(cfg, t, answers, readme, mit, apache) ==
    LET deps == IF cfg.dependencies # None THEN cfg.dependencies[1] ELSE EmptyTable
    IN Config(MergePackage(cfg.package, t, readme, mit, apache),
              Some(AddDeps(t, deps, answers)))

\* The registry's answers to the lookups add_deps makes.
AnswerSets(t) ==
    IF t.query
    THEN {f \in [SeqRange(DepNames(t)) -> Answers \cup {NonOkWithVersion}] :
             \A pkg \in DOMAIN f : f[pkg] \in AnswersOf(pkg)}
    ELSE {EmptyTable}

\* run.rs 451-473: add_deps (with its lookups), readme, license.
MergeManifest ==
    /\ pc = "merge"
    /\ \E answers \in AnswerSets(template[1]) :
          /\ registry' = answers
          /\ config' = Some(Merge(config[1], template[1], answers,
                                  Readme(args), Mit(args), Apache(args)))
    /\ trace' = trace \o LookupCalls(template[1])
    /\ Goto("open_manifest")
    /\ UNCHANGED <<args, termOk, malformed, other, template, fs, manifest, writer, events,
                   runNo, fs0, manifest0, initDoc, scaffolded, ecode>>

\* run.rs 475-479: open Cargo.toml with truncate(true): its length is 0 now.
OpenManifest ==
    /\ pc = "open_manifest"
    /\ trace' = Append(trace, Op("open_truncate", CargoToml))
    /\ IF ~manifest.exists
       THEN /\ Return(RetErr("Io"))
            /\ UNCHANGED manifest
       ELSE /\ manifest' = ManifestFile(EmptyDoc)
            /\ Goto("serialize")
    /\ UNCHANGED <<args, termOk, malformed, other, template, fs, config, writer, registry, events,
                   runNo, fs0, manifest0, initDoc, scaffolded, ecode>>

\* run.rs 480: toml::to_string(&config)? and write_all into cargo_toml_writer.
SerializeManifest ==
    /\ pc = "serialize"
    /\ \/ /\ trace' = Append(trace, Op("to_string", "Ok"))
          /\ writer' = Some(TomlToString(config[1]))
          /\ Goto("finish")
       \/ /\ trace' = Append(trace, Op("to_string", "Err"))
          /\ Return(RetErr("TomlSe"))
          /\ UNCHANGED writer
    /\ UNCHANGED <<args, termOk, malformed, other, template, fs, manifest, config, registry, events,
                   runNo, fs0, manifest0, initDoc, scaffolded, ecode>>

\* The events and the Result of run.rs 482-487.
FinalLog(level, term) ==
    LET d == Debug(level, term)
        i == Info(level, term)
        de == DebugEvent("Updated", CargoToml, level, term)
        ie == InfoEvent("Created", "project", level, term)
    IN IF ~d.ok THEN [ev |-> <<de>>, ret |-> RetErr(d.err)]
       ELSE IF ~i.ok THEN [ev |-> <<de, ie>>, ret |-> RetErr(i.err)]
       ELSE [ev |-> <<de, ie>>, ret |-> RetOk(0)]

\* run.rs 482-488: debug, info, return; cargo_toml_writer goes out of scope on
\* every way out, and its drop flushes the bytes to the file, ignoring a failure.
Finish ==
    /\ pc = "finish"
    /\ LET f == FinalLog(LevelOf(args), termOk) IN
       /\ events' = events \o f.ev
       /\ Return(f.ret)
    /\ \/ /\ manifest' = ManifestFile(writer[1])
          /\ trace' = Append(trace, Op("flush", "Ok"))
       \/ /\ manifest' = manifest
          /\ trace' = Append(trace, Op("flush", "Err"))
    /\ UNCHANGED <<args, termOk, malformed, other, template, fs, config, writer, registry,
                   runNo, fs0, manifest0, initDoc, scaffolded, ecode>>

\* The same command line is run again on the same directory.
Rerun ==
    /\ pc = "exited"
    /\ runNo < MaxRuns
    /\ runNo' = runNo + 1
    /\ scaffolded' = (scaffolded \/ exit = Some(0))
    /\ ecode' = None
    /\ fs0' = fs
    /\ manifest0' = manifest
    /\ pc' = "start"
    /\ template' = None
    /\ config' = None
    /\ writer' = None
    /\ registry' = EmptyTable
    /\ events' = << >>
    /\ trace' = << >>
    /\ ret' = None
    /\ exit' = None
    /\ initDoc' = None
    /\ UNCHANGED <<args, termOk, malformed, other, fs, manifest>>

\* One run of the command.
Next ==
    \/ SelectTemplates
    \/ CargoNew
    \/ UpdateMain
    \/ CreateError
    \/ CreateRun
    \/ CreateMit
    \/ CreateApache
    \/ CreateReadme
    \/ ReadManifest
    \/ MergeManifest
    \/ OpenManifest
    \/ SerializeManifest
    \/ Finish

Spec == Init /\ [][Next]_vars

\* The command run again and again on the same directory, with --no-latest.
InitRerun == Init /\ args.no_latest

NextRerun == Next \/ Rerun

SpecRerun == InitRerun /\ [][NextRerun]_vars

\* The values of --license and --arg_parser as run.rs 363-383 may be handed
\* them when the possible_values of run.rs 278 and 286 are not what checked
\* them: the recognized ones and one that is not.
Licenses == {"both", "mit", "apache", "none", "gpl"}
ArgParsers == {"clap", "docopt", "structopt"}

UnvalidatedArgs ==
    [arg_parser : ArgParsers,
     license : Licenses,
     no_readme : BOOLEAN,
     no_latest : {TRUE},
     quiet : BOOLEAN,
     verbose : {0},
     name : {"demo"}]

InitUnvalidated == \E a \in UnvalidatedArgs : InitWith(a)

SpecUnvalidated == InitUnvalidated /\ [][Next]_vars

\* The command built with a catalog into which one text that does not
\* compile has slipped (an unclosed `{{ name`), run with --no-latest.
InitCatalog ==
    \E a \in ArgsSet, text \in Placeholders :
        /\ a.no_latest
        /\ a.verbose = 0
        /\ InitState(a, {text})

SpecCatalog == InitCatalog /\ [][Next]_vars

\* What a run of the command holds for itself: the position and the locals
\* of run(), what it logged and did, the value it returned and the exit code
\* of its process.
Local ==
    [pc |-> pc, template |-> template, config |-> config, writer |-> writer,
     registry |-> registry, events |-> events, trace |-> trace, ret |-> ret,
     exit |-> exit, initDoc |-> initDoc, ecode |-> ecode]

\* A run that has not taken a step.
StartLocal ==
    [pc |-> "start", template |-> None, config |-> None, writer |-> None,
     registry |-> EmptyTable, events |-> << >>, trace |-> << >>, ret |-> None,
     exit |-> None, initDoc |-> None, ecode |-> None]

\* The scheduler takes the processor from one run and gives it to the other:
\* the two processes share the directory and nothing else.
Switch ==
    /\ other # None
    /\ other' = Some(Local)
    /\ pc' = other[1].pc
    /\ template' = other[1].template
    /\ config' = other[1].config
    /\ writer' = other[1].writer
    /\ registry' = other[1].registry
    /\ events' = other[1].events
    /\ trace' = other[1].trace
    /\ ret' = other[1].ret
    /\ exit' = other[1].exit
    /\ initDoc' = other[1].initDoc
    /\ ecode' = other[1].ecode
    /\ UNCHANGED <<args, termOk, malformed, fs, manifest, runNo, fs0, manifest0,
                   scaffolded>>

\* The same command line started twice on the same path, with --no-latest
\* and without -v: two processes whose steps interleave in every way.
InitConcurrent ==
    \E a \in ArgsSet :
        /\ a.no_latest
        /\ a.verbose = 0
        /\ InitProcesses(a, {}, Some(StartLocal))

NextConcurrent == Next \/ Switch

SpecConcurrent == InitConcurrent /\ [][NextConcurrent]_vars

\* ---------------------------------------------------------------- claims

\* The operation was performed by this run.
Did(o) == \E i \in 1..Len(trace) : trace[i] = o

\* The last operation this run performed.
LastOp == IF trace = << >> THEN Op("", "") ELSE trace[Len(trace)]

\* run() returned after the bytes of the merged manifest reached Cargo.toml.
Flushed == pc = "exited" /\ LastOp = Op("flush", "Ok")

\* The statement of run() that materializes a path, and its template type.
StepOf(p) ==
    CASE p = MainRs -> "update_main"
      [] p = ErrorRs -> "create_error"
      [] p = RunRs -> "create_run"
      [] p = LicenseMit -> "create_mit"
      [] p = LicenseApache -> "create_apache"
      [] p = ReadmeMd -> "create_readme"

TypeOf(p) ==
    CASE p = MainRs -> "Main"
      [] p = ErrorRs -> "Error"
      [] p = RunRs -> "Run"
      [] p = LicenseMit -> "Mit"
      [] p = LicenseApache -> "Apache"
      [] p = ReadmeMd -> "Readme"

\* C1: when `cargo new` exits with a code other than 0, run() returns that
\* code and the process exits with it; no file of the project was touched,
\* Cargo.toml was neither read nor written, and nothing was logged: the only
\* operation of the run is the spawn.
C1_InitializerFailurePropagated ==
    (ecode # None /\ ecode[1] # None /\ ecode[1][1] # 0) =>
        /\ pc = "exited"
        /\ ret = Some(RetOk(ecode[1][1]))
        /\ exit = Some(ecode[1][1])
        /\ fs = fs0
        /\ manifest = manifest0
        /\ events = << >>
        /\ trace = <<Op("spawn", "cargo new")>>

\* `cargo new` exited with 101 and so did the process.
C1_Witness == ecode = Some(Some(101)) /\ exit = Some(101)

KnownPackageKeys == {"name", "version", "authors", "license", "readme"}

\* C2: every top-level key other than package/dependencies and every key of
\* [package] other than name, version, authors, license, readme that
\* `cargo new` left in Cargo.toml is in the Cargo.toml written back, with the
\* same value, when the run ends with exit code 0.
C2_UnknownFieldsPreserved ==
    (Flushed /\ exit = Some(0)) =>
        LET before == initDoc[1].doc
            after == manifest.doc
        IN /\ \A k \in DOMAIN before.others :
                 k \in DOMAIN after.others /\ after.others[k] = before.others[k]
           /\ \A k \in (DOMAIN before.package[1]) \ KnownPackageKeys :
                 /\ k \in DOMAIN after.package[1]
                 /\ after.package[1][k] = before.package[1][k]

\* A failed open: run() returns an I/O error and no file changes.
FailsWithIo == pc' = "exited" /\ ret' = Some(RetErr("Io")) /\ fs' = fs

\* C3 as stated: create_file on a path that exists, whatever the role, fails
\* with an I/O error and leaves the file as it is; update_file on a
\* src/main.rs that does not exist fails with an I/O error and creates nothing.
C3_CreateNewOnlyAnyRole ==
    [][/\ \A p \in CreateSet :
             (pc = StepOf(p) /\ fs[p].exists) => FailsWithIo
       /\ (pc = "update_main" /\ ~fs[MainRs].exists) => FailsWithIo]_vars

\* C3, amended: create_file on a path that exists fails with an I/O error and
\* leaves the file as it is when the role has a body to write (src/error.rs
\* and src/run.rs always, LICENSE-MIT, LICENSE-APACHE and README.md when
\* selected); update_file on a src/main.rs that does not exist fails with an
\* I/O error and creates nothing.
C3_CreateNewOnly ==
    [][/\ \A p \in CreateSet :
             (/\ pc = StepOf(p)
              /\ fs[p].exists
              /\ ShouldCreate(template[1], TypeOf(p))) => FailsWithIo
       /\ (pc = "update_main" /\ ~fs[MainRs].exists) => FailsWithIo]_vars

\* create_file found LICENSE-MIT in its way: the run failed and the file is
\* the one that was there.
C3_Witness ==
    /\ pc = "exited"
    /\ ret = Some(RetErr("Io"))
    /\ LastOp = Op("create_new", LicenseMit)
    /\ fs[LicenseMit] = Foreign

\* C4: an event about a file made with create_file says "Created"; "Updated"
\* is said of src/main.rs alone.
C4_VerbByRole ==
    \A i \in 1..Len(events) :
        /\ events[i].msg \in CreateSet => events[i].verb = "Created"
        /\ (events[i].msg \in Paths /\ events[i].verb = "Updated")
              => events[i].msg = MainRs

\* C5: Cargo.toml is opened for truncate-write only after the merged Config
\* was serialized, and a run that fails to parse or to serialize the manifest
\* leaves Cargo.toml as `cargo new` wrote it.
C5_NoPartialMerge ==
    /\ Did(Op("open_truncate", CargoToml)) => Did(Op("to_string", "Ok"))
    /\ (pc = "exited" /\ ~ret[1].ok /\ ret[1].err \in {"TomlDe", "TomlSe"})
          => manifest = initDoc[1]

\* Whether the command line selects the role of a gated path.
Selected(p) ==
    CASE p = LicenseMit -> args.license \in {"both", "mit"}
      [] p = LicenseApache -> args.license \in {"both", "apache"}
      [] p = ReadmeMd -> ~args.no_readme

GatedPaths == {LicenseMit, LicenseApache, ReadmeMd}

\* C6: a gated role that is not selected leaves nothing: the run makes no
\* file at its path (the path is empty, or holds what was there before), logs
\* no event about it and performs no operation on it.
C6_GatedRolesNoArtifact ==
    \A p \in GatedPaths :
        ~Selected(p) =>
            /\ fs[p] \in {Absent, Foreign}
            /\ \A i \in 1..Len(events) : events[i].msg # p
            /\ \A i \in 1..Len(trace) : trace[i].arg # p

\* A run without licenses and without README ended with exit code 0, the
\* sources made and none of the three gated paths on disk.
C6_Witness ==
    /\ exit = Some(0)
    /\ args.license = "none"
    /\ args.no_readme
    /\ fs[ErrorRs].exists /\ fs[RunRs].exists
    /\ \A p \in GatedPaths : fs[p] = Absent

\* C7: in a run started on a directory that an earlier run with exit code 0
\* scaffolded, no file made with create_file and no byte of Cargo.toml
\* changes, run() never gets past create_file(src/error.rs), and when
\* `cargo new` reports success the run ends with the I/O error of that call.
C7_RerunFailsAtFirstCreate ==
    (runNo > 1 /\ scaffolded) =>
        /\ \A p \in CreateSet : fs[p] = fs0[p]
        /\ manifest = manifest0
        /\ pc \in {"start", "cargo_new", "update_main", "create_error", "exited"}
        /\ (pc = "exited" /\ ecode = Some(Some(0))) =>
              /\ ret = Some(RetErr("Io"))
              /\ exit = Some(1)
              /\ LastOp = Op("create_new", ErrorRs)

\* The second run on a scaffolded directory failed at src/error.rs.
C7_Witness ==
    /\ runNo = 2
    /\ scaffolded
    /\ pc = "exited"
    /\ ecode = Some(Some(0))
    /\ fs[ErrorRs].exists
    /\ LastOp = Op("create_new", ErrorRs)

\* The fallback versions as the documentation gives them.
DocumentedFallback(pkg) ==
    CASE pkg = "error-chain" -> "0.10.0"
      [] pkg = "clap" -> "2.25.0"
      [] pkg = "docopt" -> "0.8.1"
      [] pkg = "serde_derive" -> "1.0.9"
      [] pkg = "serde" -> "1.0.9"

\* The dependencies the documentation gives each argument parser.
DocumentedDeps ==
    IF args.arg_parser = "clap" THEN {"error-chain", "clap"}
    ELSE {"error-chain", "docopt", "serde_derive", "serde"}

\* The lookup got no version: no response, or a response without max_version.
LookupFailed(a) == ~a.transfer \/ a.body = None

\* run() holds the merged Config and has not returned.
Merged == pc \in {"open_manifest", "serialize", "finish"}

\* No debug()/info() call of this command line can fail.
LoggingCannotFail == termOk \/ LevelOf(args) > LevelInfo

DepsBefore ==
    IF initDoc[1].doc.dependencies = None THEN {}
    ELSE DOMAIN initDoc[1].doc.dependencies[1]

\* C9: with --no-latest the run makes no lookup, and the Cargo.toml written
\* back gives every dependency of the argument parser its documented
\* fallback version; the entries added are those 2 (clap) or 4 (docopt).
C9_FallbackDeterminism ==
    args.no_latest =>
        /\ \A i \in 1..Len(trace) : trace[i].op # "get_latest"
        /\ DOMAIN registry = {}
        /\ Flushed =>
              LET deps == manifest.doc.dependencies[1] IN
              /\ \A pkg \in DocumentedDeps : deps[pkg] = Str(DocumentedFallback(pkg))
              /\ DOMAIN deps = DepsBefore \cup DocumentedDeps
              /\ Cardinality((DOMAIN deps) \ (DepsBefore \ DocumentedDeps))
                    = IF args.arg_parser = "clap" THEN 2 ELSE 4

\* A --no-latest run for docopt wrote the manifest and ended with exit code 0.
C9_Witness ==
    /\ Flushed
    /\ exit = Some(0)
    /\ args.no_latest
    /\ args.arg_parser = "docopt"

\* The version the run resolved for a package: max_version of the response
\* when one was asked for and came, else the fallback.
Resolved(pkg) ==
    IF ~args.no_latest /\ ~LookupFailed(registry[pkg]) THEN registry[pkg].body[1]
    ELSE DocumentedFallback(pkg)

\* C10: the merged dependencies hold every resolved entry with its resolved
\* version, and every entry `cargo new` left under another name with the
\* value it had: in the merged Config and in the Cargo.toml written back.
C10_DependencyMerge ==
    /\ Merged =>
          LET deps == config[1].dependencies[1] IN
          /\ \A pkg \in DocumentedDeps : deps[pkg] = Resolved(pkg)
          /\ \A k \in DepsBefore \ DocumentedDeps :
                k \in DOMAIN deps /\ Str(deps[k]) = initDoc[1].doc.dependencies[1][k]
    /\ Flushed =>
          LET deps == manifest.doc.dependencies[1] IN
          /\ \A pkg \in DocumentedDeps : deps[pkg] = Str(Resolved(pkg))
          /\ \A k \in DepsBefore \ DocumentedDeps :
                k \in DOMAIN deps /\ deps[k] = initDoc[1].doc.dependencies[1][k]

\* clap resolved from the registry replaced the clap of the manifest, and
\* beta stayed.
C10_Witness ==
    /\ Flushed
    /\ args.arg_parser = "clap"
    /\ {"beta", "clap"} \subseteq DepsBefore
    /\ "clap" \in DOMAIN registry
    /\ ~LookupFailed(registry["clap"])
    /\ manifest.doc.dependencies[1]["clap"] = Str("9.9.9")
    /\ manifest.doc.dependencies[1]["beta"] = Str("2.0.0")

\* The license and the readme `cargo new` left in [package] (Options).
LicenseBefore == OptString(initDoc[1].doc.package[1], "license")
ReadmeBefore == OptString(initDoc[1].doc.package[1], "readme")

\* The package.license the documentation gives each license choice.
DocumentedLicense ==
    CASE args.license = "both" -> Some("MIT/Apache-2.0")
      [] args.license = "mit" -> Some("MIT")
      [] args.license = "apache" -> Some("Apache-2.0")
      [] args.license = "none" -> LicenseBefore

DocumentedReadme ==
    IF ~args.no_readme THEN Some("README.md") ELSE ReadmeBefore

\* C11: after the merge package.license is "MIT/Apache-2.0" for both, "MIT"
\* for mit, "Apache-2.0" for apache and what `cargo new` left (a value or
\* nothing) for none; package.readme is "README.md" with a README and what
\* `cargo new` left without one: in the merged Config and in the Cargo.toml
\* written back.
C11_ManifestMetadata ==
    /\ Merged =>
          /\ config[1].package.license = DocumentedLicense
          /\ config[1].package.readme = DocumentedReadme
    /\ Flushed =>
          /\ OptString(manifest.doc.package[1], "license") = DocumentedLicense
          /\ OptString(manifest.doc.package[1], "readme") = DocumentedReadme

\* A run without license and README wrote back the license and the readme
\* `cargo new` had put in the manifest.
C11_Witness ==
    /\ Flushed
    /\ args.license = "none"
    /\ args.no_readme
    /\ LicenseBefore = Some("GPL-3.0")
    /\ manifest.doc.package[1]["license"] = Str("GPL-3.0")
    /\ manifest.doc.package[1]["readme"] = Str("DOC.md")

\* The paths whose role the command line does not gate off.
NonGatedPaths == {MainRs, ErrorRs, RunRs} \cup {p \in GatedPaths : Selected(p)}

\* The file holds bytes this run wrote.
RoleWritten(p) == fs[p].exists /\ fs[p].data # << >> /\ fs[p] \notin {Stub, Foreign}

\* Cargo.toml holds the serialized merged Config.
ManifestWritten ==
    /\ config # None
    /\ manifest = ManifestFile(TomlToString(config[1]))

\* C12: the process exits 0 only if every role that is not gated off was
\* written and the merged manifest is in Cargo.toml; it exits with the code of
\* `cargo new` when that code is not 0; it exits 1 whenever run() returns an
\* error.
C12_ExitCodes ==
    /\ exit = Some(0) =>
          /\ \A p \in NonGatedPaths : RoleWritten(p)
          /\ ManifestWritten
    /\ (pc = "exited" /\ ecode # None /\ ecode[1] # None /\ ecode[1][1] # 0)
          => exit = Some(ecode[1][1])
    /\ (pc = "exited" /\ ~ret[1].ok) => exit = Some(1)

\* Whether create_file has a file to make for the path.
Materialized(p) == p \notin GatedPaths \/ Selected(p)

\* The operations of a run that goes through, in the documented order:
\* initializer, entry point, the roles that are not gated off, the manifest
\* read, the lookups, the manifest write.
Plan ==
    LET made == SelectSeq(CreatePaths, Materialized) IN
    <<Op("spawn", "cargo new"), Op("open_truncate", MainRs)>>
    \o [i \in 1..Len(made) |-> Op("create_new", made[i])]
    \o <<Op("read", CargoToml)>>
    \o LookupCalls(template[1])
    \o <<Op("open_truncate", CargoToml), Op("to_string", "Ok"), Op("flush", "Ok")>>

\* The operation did what it was for.
StepOk(o) ==
    CASE o.op = "spawn" -> ecode = Some(Some(0))
      [] o.op = "open_truncate" /\ o.arg = MainRs ->
             RoleWritten(MainRs) /\ Debug(LevelOf(args), termOk).ok
      [] o.op = "create_new" ->
             RoleWritten(o.arg) /\ Debug(LevelOf(args), termOk).ok
      [] o.op = "read" -> config # None
      [] o.op = "get_latest" -> o.arg \in DOMAIN registry
      [] o.op = "open_truncate" /\ o.arg = CargoToml ->
             manifest.exists
      [] o.op = "to_string" -> o.arg = "Ok"
      [] o.op = "flush" -> TRUE

\* C13: the operations of a run are a prefix of the documented sequence
\* (templates selected before `cargo new` is spawned; files after it
\* reported success; Cargo.toml opened for writing after every role was made
\* or skipped and every lookup was answered), and an operation is followed
\* by another only when it succeeded.
C13_LinearOrchestration ==
    trace # << >> =>
        /\ template # None
        /\ LET plan == Plan IN
           /\ Len(trace) <= Len(plan)
           /\ \A i \in 1..Len(trace) :
                 /\ trace[i].op = plan[i].op
                 /\ trace[i].op \notin {"to_string", "flush"} => trace[i].arg = plan[i].arg
                 /\ i < Len(trace) => StepOk(trace[i])
        /\ (pc = "exited" /\ exit # Some(0)) =>
              ~StepOk(LastOp) \/ LastOp.op = "flush"

\* LICENSE-APACHE was in the way: the run stopped there, with LICENSE-MIT
\* made and Cargo.toml not read.
C13_Witness ==
    /\ pc = "exited"
    /\ args.license = "both"
    /\ LastOp = Op("create_new", LicenseApache)
    /\ fs[LicenseApache] = Foreign
    /\ RoleWritten(LicenseMit)
    /\ ~fs[ReadmeMd].exists
    /\ config = None

\* The operation opens a file of the project other than Cargo.toml.
FileOp(o) == o.op \in {"open_truncate", "create_new"} /\ o.arg \in Paths

\* The content the documentation gives a file: the license header when a
\* license is selected, then the template of the role with the project name.
DocumentedContent(p) ==
    LET t == template[1]
        named(text) == [text |-> text, name |-> args.name]
        head == IF args.license = "none" THEN << >> ELSE <<named(t.prefix)>>
    IN CASE p = MainRs -> head \o <<named(t.main)>>
         [] p = ErrorRs -> head \o <<named(t.error)>>
         [] p = RunRs -> head \o <<named(t.run)>>
         [] p = LicenseMit -> <<Raw("LICENSE_MIT")>>
         [] p = LicenseApache -> <<Raw("LICENSE_APACHE")>>
         [] p = ReadmeMd -> <<named("README")>>

\* C14: when a run ends at a file step that failed, every file an earlier
\* step of the run wrote is on disk with the content written (src/main.rs
\* overwritten, the others created), Cargo.toml is as `cargo new` left it and
\* no merged Config exists.
C14_NoRollback ==
    (pc = "exited" /\ exit # Some(0) /\ FileOp(LastOp)) =>
        /\ \A i \in 1..(Len(trace) - 1) :
              FileOp(trace[i]) =>
                  fs[trace[i].arg] = File(DocumentedContent(trace[i].arg))
        /\ manifest = initDoc[1]
        /\ config = None

\* LICENSE-MIT was in the way: src/main.rs, src/error.rs and src/run.rs hold
\* what the run wrote and Cargo.toml is the one `cargo new` made.
C14_Witness ==
    /\ pc = "exited"
    /\ exit = Some(1)
    /\ LastOp = Op("create_new", LicenseMit)
    /\ fs[LicenseMit] = Foreign
    /\ \A p \in {MainRs, ErrorRs, RunRs} : fs[p] = File(DocumentedContent(p))
    /\ manifest.exists
    /\ manifest = initDoc[1]

\* The license or the argument parser is none of those run() matches on.
UnrecognizedLicense == args.license \notin {"both", "mit", "apache", "none"}
UnrecognizedArgParser == args.arg_parser \notin {"clap", "docopt"}

\* C15: with a license run() does not recognize the run fails with
\* InvalidLicense, with an argument parser it does not recognize (and a
\* license it does) with InvalidArgParser; no template set is selected in
\* place of the unknown one, `cargo new` is not spawned, no file and no
\* byte of Cargo.toml changes and nothing is logged.
C15_InvalidSelectionFailsFast ==
    (UnrecognizedLicense \/ UnrecognizedArgParser) =>
        /\ pc \in {"start", "exited"}
        /\ template = None
        /\ trace = << >>
        /\ events = << >>
        /\ fs = fs0
        /\ manifest = manifest0
        /\ pc = "exited" =>
              /\ ret = Some(RetErr(IF UnrecognizedLicense THEN "InvalidLicense"
                                   ELSE "InvalidArgParser"))
              /\ exit = Some(1)

\* A run for the argument parser structopt ended with InvalidArgParser.
C15_Witness ==
    /\ pc = "exited"
    /\ args.arg_parser = "structopt"
    /\ args.license = "mit"
    /\ ret = Some(RetErr("InvalidArgParser"))
    /\ trace = << >>

\* C16: in the Templates made for a (mit, apache) choice the MIT body is
\* there exactly for both and mit, the Apache body exactly for both and
\* apache, and the prefix is a text (not "") exactly when one of the bodies
\* is there, which is when has_license() holds.
C16_LicenseAssets ==
    template # None =>
        LET t == template[1] IN
        /\ t.mit # None <=> args.license \in {"both", "mit"}
        /\ t.apache # None <=> args.license \in {"both", "apache"}
        /\ t.prefix # "" <=> (t.mit # None \/ t.apache # None)
        /\ HasLicense(t) <=> t.prefix # ""

\* The Templates of --license mit: an MIT body, no Apache body, a prefix.
C16_Witness ==
    /\ template # None
    /\ args.license = "mit"
    /\ template[1].mit # None
    /\ template[1].apache = None
    /\ template[1].prefix = "PREFIX_MIT"

\* The end-to-end scenario: clap, both licenses, a README, no lookups, and a
\* `cargo new` that succeeded leaving src/main.rs and a Cargo.toml with
\* package {name, version, authors} in a directory with nothing in the way.
Scenario ==
    /\ args.arg_parser = "clap"
    /\ args.license = "both"
    /\ ~args.no_readme
    /\ args.no_latest
    /\ ecode = Some(Some(0))
    /\ initDoc = Some(ManifestFile(Doc(TRUE, Some(BasePackage), None, EmptyTable)))
    /\ fs[MainRs].exists
    /\ \A p \in CreateSet : fs[p] # Foreign

\* C17: the scenario ends with exit code 0, src/main.rs holding the
\* rendered template with the project name, src/error.rs, src/run.rs,
\* LICENSE-MIT, LICENSE-APACHE and README.md made, and Cargo.toml holding
\* license "MIT/Apache-2.0", readme "README.md" and the dependencies
\* error-chain and clap at their fallback versions.
C17_EndToEnd ==
    (pc = "exited" /\ Scenario) =>
        /\ exit = Some(0)
        /\ \A p \in Paths : fs[p] = File(DocumentedContent(p))
        /\ \E i \in 1..Len(fs[MainRs].data) :
              fs[MainRs].data[i] = [text |-> "CLAP_MAIN_RS", name |-> "demo"]
        /\ manifest.exists
        /\ manifest.doc.package # None
        /\ OptString(manifest.doc.package[1], "license") = Some("MIT/Apache-2.0")
        /\ OptString(manifest.doc.package[1], "readme") = Some("README.md")
        /\ manifest.doc.dependencies
              = Some([k \in {"error-chain", "clap"} |->
                        Str(IF k = "clap" THEN "2.25.0" ELSE "0.10.0")])

\* C18: a response with a status other than 200 counts as a failed lookup:
\* the version of its package in the merged Config and in the Cargo.toml
\* written back is the fallback, whatever the body of the response holds.
C18_NonOkIsFailure ==
    \A pkg \in DOMAIN registry :
        (registry[pkg].transfer /\ registry[pkg].status # 200) =>
            /\ config[1].dependencies[1][pkg] = DocumentedFallback(pkg)
            /\ Flushed =>
                  manifest.doc.dependencies[1][pkg] = Str(DocumentedFallback(pkg))

\* The run opened the file: it holds what write_file put into it, which may
\* be nothing.
OpenedByRun(p) ==
    /\ Did(Op(IF p = MainRs THEN "open_truncate" ELSE "create_new", p))
    /\ fs[p].exists
    /\ fs[p] \notin {Stub, Foreign}

\* The texts write_file renders for a path.
TextsOf(p) ==
    LET t == template[1]
        head == IF HasLicense(t) THEN {t.prefix} ELSE {}
    IN CASE p = MainRs -> head \cup {t.main}
         [] p = ErrorRs -> head \cup {t.error}
         [] p = RunRs -> head \cup {t.run}
         [] p = ReadmeMd -> {"README"}
         [] OTHER -> {}

\* C19: a run that opened the file of a role one of whose texts does not
\* render ends with the rendering error and exit code 1; and a run that
\* ends with exit code 0 left no file it opened empty or partial.
C19_RenderFailureFatal ==
    pc = "exited" =>
        \A p \in Paths :
            OpenedByRun(p) =>
                /\ (TextsOf(p) \cap malformed # {}) =>
                      ret = Some(RetErr("Mustache")) /\ exit = Some(1)
                /\ exit = Some(0) => fs[p].data = DocumentedContent(p)

\* run() serialized the merged Config and returned, and Cargo.toml does not
\* hold the bytes.
ManifestBytesLost ==
    /\ pc = "exited"
    /\ writer # None
    /\ manifest # ManifestFile(writer[1])

\* The run made the call debug("Updated", "Cargo.toml").
SaidUpdatedManifest ==
    \E i \in 1..Len(events) :
        events[i].verb = "Updated" /\ events[i].msg = CargoToml

\* C20: when the bytes of the serialized manifest do not reach Cargo.toml,
\* run() returns an I/O error and the process exits with a code other than
\* 0; no run says "Updated Cargo.toml" and exits 0 without the bytes in
\* the file.
C20_ManifestWriteFailureFatal ==
    ManifestBytesLost =>
        /\ ret = Some(RetErr("Io"))
        /\ exit # Some(0)
        /\ ~(SaidUpdatedManifest /\ exit = Some(0))

\* The dependencies toml::from_str read from the Cargo.toml of `cargo new`.
ParsedDeps ==
    LET d == FromStr(initDoc[1].doc).val.dependencies IN
    IF d = None THEN EmptyTable ELSE d[1]

\* Every order of the packages add_deps resolves.
Orders(names) ==
    {[i \in 1..Len(names) |-> names[f[i]]] : f \in Permutations(1..Len(names))}

\* The orders for the packages of clap and for those of docopt.
ClapOrders == Orders(DepNames([clap |-> TRUE]))
DocoptOrders == Orders(DepNames([clap |-> FALSE]))

\* C21: with the answer of the registry for each package fixed, the merged
\* dependencies are the same for every order in which the packages are
\* resolved and inserted; and had the lookup of one package failed, that
\* package alone would have another version, its fallback.
C21_OrderInsensitive ==
    pc = "open_manifest" =>
        LET t == template[1]
            deps == config[1].dependencies[1]
            parsed == ParsedDeps
        IN /\ \A order \in (IF t.clap THEN ClapOrders ELSE DocoptOrders) :
                 InsertAll(t, parsed, order, 1, registry) = deps
           /\ \A pkg \in DOMAIN registry :
                 LET failed == AddDeps(t, parsed,
                                       [registry EXCEPT ![pkg] = NoTransfer])
                 IN /\ DOMAIN failed = DOMAIN deps
                    /\ failed[pkg] = DocumentedFallback(pkg)
                    /\ \A k \in (DOMAIN deps) \ {pkg} : failed[k] = deps[k]

\* docopt merged with the lookup of docopt failed and those of serde,
\* serde_derive and error-chain answered.
C21_Witness ==
    /\ pc = "open_manifest"
    /\ args.arg_parser = "docopt"
    /\ ~args.no_latest
    /\ ~registry["docopt"].transfer
    /\ config[1].dependencies[1]["docopt"] = "0.8.1"
    /\ \A k \in {"serde", "serde_derive", "error-chain"} :
          config[1].dependencies[1][k] = "9.9.9"

\* What the step run() is at writes and returns at a verbosity and with or
\* without a terminal: the bytes and the Result of write_file for a file
\* step, the value run() returns for the last step.
StepOutcome(level, term) ==
    IF pc = "finish" THEN [data |-> << >>, ret |-> FinalLog(level, term).ret]
    ELSE LET p == CHOOSE q \in Paths : StepOf(q) = pc
             w == WriteFile(template[1], TypeOf(p), level, term)
         IN [data |-> w.data,
             ret |-> IF w.res.ok THEN RetOk(0) ELSE RetErr(w.res.err)]

\* C22: at every step that logs, the bytes written and the Result are those
\* of the same step at any other verbosity and with or without a terminal,
\* so that runs that differ in these alone write the same files and the
\* same manifest and exit with the same code.
C22_LoggingNonInterference ==
    (pc \in {StepOf(p) : p \in Paths} \cup {"finish"}) =>
        \A level \in {LevelTrace, LevelDebug, LevelInfo, LevelWarn}, term \in BOOLEAN :
            StepOutcome(level, term) = StepOutcome(LevelOf(args), termOk)

\* The fields of [package] that Package declares and the merge does not set.
KeptPackageKeys == {"name", "version", "authors"}

\* C23: name, version and authors of [package] are, in the merged Config and
\* in the Cargo.toml written back, the values `cargo new` put in the
\* manifest, with their types.
C23_KnownFieldsKept ==
    /\ Merged =>
          LET before == initDoc[1].doc.package[1]
              pkg == config[1].package
          IN /\ Str(pkg.name) = before["name"]
             /\ Str(pkg.version) = before["version"]
             /\ Arr(pkg.authors) = before["authors"]
    /\ Flushed =>
          LET before == initDoc[1].doc.package[1]
              after == manifest.doc.package[1]
          IN \A k \in KeptPackageKeys :
                k \in DOMAIN after /\ after[k] = before[k]

\* A run for the MIT license wrote the manifest back: the license is set,
\* name, version and authors are those of `cargo new`.
C23_Witness ==
    /\ Flushed
    /\ args.license = "mit"
    /\ manifest.doc.package[1]["license"] = Str("MIT")
    /\ manifest.doc.package[1]["name"] = Str("demo")
    /\ manifest.doc.package[1]["version"] = Str("0.1.0")
    /\ manifest.doc.package[1]["authors"] = Arr("me")

\* create_file(src/error.rs) returned Ok to the run: it went on to src/run.rs.
GotPastErrorRs(l) ==
    \E i \in 1..Len(l.trace) : l.trace[i] = Op("create_new", RunRs)

\* The run ended for an open that failed.
EndedFailed(l) == l.pc = "exited" /\ l.ret = Some(RetErr("Io")) /\ l.exit = Some(1)

\* C24: of two runs that scaffold the same path at the same time, `cargo new`
\* having reported success to both, at most one gets past the create_new of
\* src/error.rs and at most one exits 0, however their steps interleave; when
\* one has exited 0, the other, once it has exited, has failed.
C24_AtMostOneSucceeds ==
    (/\ other # None
     /\ ecode = Some(Some(0))
     /\ other[1].ecode = Some(Some(0))) =>
        /\ ~(GotPastErrorRs(Local) /\ GotPastErrorRs(other[1]))
        /\ ~(exit = Some(0) /\ other[1].exit = Some(0))
        /\ (exit = Some(0) /\ other[1].pc = "exited") => EndedFailed(other[1])
        /\ (other[1].exit = Some(0) /\ pc = "exited") => EndedFailed(Local)

\* One run exited 0 with the project made; the other, whose `cargo new` had
\* reported success too, found src/error.rs there and failed.
C24_Witness ==
    /\ other # None
    /\ exit = Some(0)
    /\ Flushed
    /\ other[1].ecode = Some(Some(0))
    /\ other[1].exit = Some(1)
    /\ other[1].trace[Len(other[1].trace)] = Op("create_new", ErrorRs)
    /\ other[1].trace[2] = Op("open_truncate", MainRs)

====
